---- MODULE Spec2Model ----
(***************************************************************************)
(* Model of netlogger.py: the server cache, server discovery, the          *)
(* last-good-server record and the speed test runner.                      *)
(*                                                                         *)
(* Python strings are TLA+ strings; Chars gives the characters of each     *)
(* string the model uses, so that lower(), strip(), int() and the          *)
(* substring test are computed on characters as Python computes them.      *)
(* None is the string Null.                                                *)
(***************************************************************************)
EXTENDS Integers, Sequences, FiniteSets, TLC

VARIABLES
    cacheFile,          \* content of SERVER_CACHE_FILE
    cacheWritable,      \* whether open(SERVER_CACHE_FILE, "w") succeeds
    lastGoodFile,       \* content of LAST_GOOD_FILE: provider -> endpoint
    lastGoodWritable,   \* whether open(LAST_GOOD_FILE, "w") succeeds
    pc,                 \* position of run_speedtest_dynamic
    target,             \* its argument target
    retries,            \* its argument retries
    cand,               \* its local cand
    ci,                 \* index into cand[:3] of the candidate ch
    a,                  \* the try number a of the inner loop
    failure_count,      \* its local failure_count
    ret,                \* server_id of the result returned, 0 for None
    log,                \* what the current invocation has done, in order
    obs,                \* the last call of load/save/discover made on its own
    directory,          \* the answers the upstream directory can give
    lastOk,             \* provider -> endpoint of its latest successful try
                        \* since main_loop started
    stop,               \* the flag _stop
    mpc,                \* position of main_loop, "off" when it is not run
    isp_i,              \* index of isp in ["etisalat", "du"], 0 outside the loop
    ticks,              \* iterations left of range(sleep_time)
    cyc,                \* what the current cycle of main_loop has done, in order
    seen                \* what has happened since main_loop started

vars == <<cacheFile, cacheWritable, lastGoodFile, lastGoodWritable, pc, target,
          retries, cand, ci, a, failure_count, ret, log, obs, directory, lastOk,
          stop, mpc, isp_i, ticks, cyc, seen>>

\* the variables of main_loop
loopVars == <<stop, mpc, isp_i, ticks, cyc, seen>>

----------------------------------------------------------------------------
(* Bounds *)

\* longest upstream server list a discovery draws (beside ExampleUpstream)
MaxUpstream == 2
\* longest upstream server list a discovery made by the runner draws
MaxRunUpstream == 3
\* largest retries argument of run_speedtest_dynamic
MaxRetries == 2
\* most entries of one provider in a cache file found at start
MaxCached == 2

----------------------------------------------------------------------------
(* Strings *)

Null == "None"

Providers == {"etisalat", "du"}

Chars(s) ==
    CASE s = Null -> <<"N", "o", "n", "e">>
    [] s = "" -> <<>>
    [] s = "United Arab Emirates" -> <<"U", "n", "i", "t", "e", "d", " ", "A", "r", "a", "b", " ", "E", "m", "i", "r", "a", "t", "e", "s">>
    [] s = "UAE" -> <<"U", "A", "E">>
    [] s = "Oman" -> <<"O", "m", "a", "n">>
    [] s = "e& UAE" -> <<"e", "&", " ", "U", "A", "E">>
    [] s = "du" -> <<"d", "u">>
    [] s = "Etisalat" -> <<"E", "t", "i", "s", "a", "l", "a", "t">>
    [] s = "Random ISP" -> <<"R", "a", "n", "d", "o", "m", " ", "I", "S", "P">>
    [] s = "EITC" -> <<"E", "I", "T", "C">>
    [] s = "Alain" -> <<"A", "l", "a", "i", "n">>
    [] s = "Abu Dhabi" -> <<"A", "b", "u", " ", "D", "h", "a", "b", "i">>
    [] s = "Dubai" -> <<"D", "u", "b", "a", "i">>
    [] s = "Muscat" -> <<"M", "u", "s", "c", "a", "t">>
    [] s = "united arab" -> <<"u", "n", "i", "t", "e", "d", " ", "a", "r", "a", "b">>
    [] s = "uae" -> <<"u", "a", "e">>
    [] s = "u.a.e" -> <<"u", ".", "a", ".", "e">>
    [] s = "e&" -> <<"e", "&">>
    [] s = "etisalat" -> <<"e", "t", "i", "s", "a", "l", "a", "t">>
    [] s = "emirates tele" -> <<"e", "m", "i", "r", "a", "t", "e", "s", " ", "t", "e", "l", "e">>
    [] s = "eitc" -> <<"e", "i", "t", "c">>
    [] s = "2001" -> <<"2", "0", "0", "1">>
    [] s = "2002" -> <<"2", "0", "0", "2">>
    [] s = "2003" -> <<"2", "0", "0", "3">>
    [] s = "2004" -> <<"2", "0", "0", "4">>
    [] s = "2005" -> <<"2", "0", "0", "5">>
    [] s = "2006" -> <<"2", "0", "0", "6">>
    [] s = "2007" -> <<"2", "0", "0", "7">>
    [] s = "2008" -> <<"2", "0", "0", "8">>
    [] s = "1000" -> <<"1", "0", "0", "0">>
    [] s = " 1692 " -> <<" ", "1", "6", "9", "2", " ">>
    [] s = "999" -> <<"9", "9", "9">>
    [] s = "-2001" -> <<"-", "2", "0", "0", "1">>
    [] s = "12a" -> <<"1", "2", "a">>

\* str.lower(), one character
LowerChar(c) ==
    CASE c = "A" -> "a" [] c = "B" -> "b" [] c = "C" -> "c" [] c = "D" -> "d"
    [] c = "E" -> "e" [] c = "F" -> "f" [] c = "G" -> "g" [] c = "H" -> "h"
    [] c = "I" -> "i" [] c = "J" -> "j" [] c = "K" -> "k" [] c = "L" -> "l"
    [] c = "M" -> "m" [] c = "N" -> "n" [] c = "O" -> "o" [] c = "P" -> "p"
    [] c = "Q" -> "q" [] c = "R" -> "r" [] c = "S" -> "s" [] c = "T" -> "t"
    [] c = "U" -> "u" [] c = "V" -> "v" [] c = "W" -> "w" [] c = "X" -> "x"
    [] c = "Y" -> "y" [] c = "Z" -> "z"
    [] OTHER -> c

\* the strings of the sponsor, name and country fields the model uses
FieldStrings ==
    {Null, "", "United Arab Emirates", "UAE", "Oman", "e& UAE", "du", "Etisalat",
     "Random ISP", "EITC", "Alain", "Abu Dhabi", "Dubai", "Muscat"}

\* (x or "").lower(), as characters, of every field string
LowerOrEmptyOf ==
    [s \in FieldStrings |->
        IF s = Null THEN <<>>
        ELSE LET cs == Chars(s) IN [i \in 1..Len(cs) |-> LowerChar(cs[i])]]

\* (x or "").lower(), as characters
LowerOrEmpty(s) == LowerOrEmptyOf[s]

\* k in cs, for sequences of characters
Contains(k, cs) ==
    \E i \in 0..(Len(cs) - Len(k)) : \A j \in 1..Len(k) : cs[i + j] = k[j]

Digits == {"0", "1", "2", "3", "4", "5", "6", "7", "8", "9"}

DigitVal(c) ==
    CASE c = "0" -> 0 [] c = "1" -> 1 [] c = "2" -> 2 [] c = "3" -> 3
    [] c = "4" -> 4 [] c = "5" -> 5 [] c = "6" -> 6 [] c = "7" -> 7
    [] c = "8" -> 8 [] c = "9" -> 9

DigitChar(d) == <<"0", "1", "2", "3", "4", "5", "6", "7", "8", "9">>[d + 1]

RECURSIVE DecChars(_)
\* str(n) of an integer n
DecChars(n) ==
    IF n < 0 THEN <<"-">> \o DecChars(0 - n)
    ELSE IF n < 10 THEN <<DigitChar(n)>>
    ELSE DecChars(n \div 10) \o <<DigitChar(n % 10)>>

RECURSIVE DecVal(_)
\* the value of a non-empty sequence of digits
DecVal(cs) ==
    IF Len(cs) = 1 THEN DigitVal(cs[1])
    ELSE 10 * DecVal(SubSeq(cs, 1, Len(cs) - 1)) + DigitVal(cs[Len(cs)])

RECURSIVE Strip(_)
\* str.strip()
Strip(cs) ==
    IF cs = <<>> THEN cs
    ELSE IF cs[1] = " " THEN Strip(Tail(cs))
    ELSE IF cs[Len(cs)] = " " THEN Strip(SubSeq(cs, 1, Len(cs) - 1))
    ELSE cs

\* int(x) of a string x: ok is FALSE where int raises ValueError
PyInt(cs) ==
    LET t == Strip(cs)
        signed == t # <<>> /\ t[1] \in {"+", "-"}
        body == IF signed THEN Tail(t) ELSE t
        ok == body # <<>> /\ \A i \in 1..Len(body) : body[i] \in Digits
    IN  IF ~ok THEN [ok |-> FALSE, v |-> 0]
        ELSE IF signed /\ t[1] = "-" THEN [ok |-> TRUE, v |-> 0 - DecVal(body)]
        ELSE [ok |-> TRUE, v |-> DecVal(body)]

----------------------------------------------------------------------------
(* JSON values of an "id" field: an integer, a string, null, or no key *)

IntId(n) == [t |-> "int", n |-> n, s |-> ""]
StrId(s) == [t |-> "str", n |-> 0, s |-> s]
NullId == [t |-> "null", n |-> 0, s |-> ""]
NoId == [t |-> "nokey", n |-> 0, s |-> ""]

\* str(x) of the value of an "id" field read with get (no key reads as None)
PyStr(id) ==
    CASE id.t = "int" -> DecChars(id.n)
    [] id.t = "str" -> Chars(id.s)
    [] OTHER -> Chars(Null)

----------------------------------------------------------------------------
(* Endpoints, pools and the cache file *)

\* a server dict as the program holds it: id is an int
Endpoint(id, sponsor, name, country) ==
    [id |-> id, sponsor |-> sponsor, name |-> name, country |-> country]

\* the dict {"etisalat": [], "du": []}
EmptyPool == [etisalat |-> <<>>, du |-> <<>>]

\* an entry of a list in the cache file: a JSON object with the four keys,
\* or some other JSON value (isdict FALSE)
RawEntry(id, sponsor, name, country) ==
    [isdict |-> TRUE, id |-> id, sponsor |-> sponsor, name |-> name,
     country |-> country]

NotADict == [isdict |-> FALSE, id |-> NullId, sponsor |-> Null, name |-> Null,
             country |-> Null]

\* the value of a provider key of the cache file: a list, no key (or null),
\* or a truthy value that is not iterable
JList(v) == [t |-> "list", v |-> v]
JAbsent == [t |-> "absent", v |-> <<>>]
JScalar == [t |-> "scalar", v |-> <<>>]

\* the cache file: no file, a file json.load rejects or whose top level is
\* not an object, or a JSON object
FileMissing == [kind |-> "missing", etisalat |-> JAbsent, du |-> JAbsent]
FileMalformed == [kind |-> "malformed", etisalat |-> JAbsent, du |-> JAbsent]
FileObject(e, d) == [kind |-> "object", etisalat |-> e, du |-> d]

\* json.dumps of a pool
JsonDump(data) ==
    LET ser(lst) == [i \in 1..Len(lst) |->
                       RawEntry(IntId(lst[i].id), lst[i].sponsor, lst[i].name,
                                lst[i].country)]
    IN  FileObject(JList(ser(data.etisalat)), JList(ser(data.du)))

MinServerId == 1000

ValidIdStrict(sid) == sid > MinServerId

\* the test sid >= 1000 of _ok
ValidId(sid) == sid >= MinServerId

RECURSIVE Ok(_)
\* _ok(lst) of load_cached_servers, for a list lst
Ok(lst) ==
    IF lst = <<>> THEN <<>>
    ELSE LET s == Head(lst)
             sid == PyInt(Strip(PyStr(s.id)))
         IN  IF s.isdict /\ sid.ok /\ ValidId(sid.v)
             THEN <<Endpoint(sid.v, s.sponsor, s.name, s.country)>> \o Ok(Tail(lst))
             ELSE Ok(Tail(lst))

Absent == [present |-> FALSE, pool |-> EmptyPool]
Present(pool) == [present |-> TRUE, pool |-> pool]

\* load_cached_servers(): Absent is None
LoadCachedServers(file) ==
    IF file.kind # "object" THEN Absent
    ELSE IF file.etisalat.t = "scalar" \/ file.du.t = "scalar" THEN Absent
    ELSE LET e == Ok(file.etisalat.v)
             d == Ok(file.du.v)
         IN  IF e = <<>> \/ d = <<>> THEN Absent
             ELSE Present([etisalat |-> e, du |-> d])

\* a save that opens the file for appending
SaveAppending(file, writable, data) ==
    IF ~writable THEN file
    ELSE IF file.kind = "missing" THEN JsonDump(data)
    ELSE FileMalformed

\* save_cached_servers(data): the file afterwards
SaveCachedServers(file, writable, data) ==
    IF writable THEN JsonDump(data) ELSE file

----------------------------------------------------------------------------
(* discover_servers *)

RegionMarkers == {"united arab", "uae", "u.a.e"}
EtisalatKeywords == {"e&", "etisalat", "emirates tele"}
DuKeywords == {"du", "eitc"}

\* any(k in x for k in keywords), for x = (field or "").lower(), of every
\* field string
AnyIn(keywords) ==
    [x \in FieldStrings |-> \E k \in keywords : Contains(Chars(k), LowerOrEmpty(x))]

RegionIn == AnyIn(RegionMarkers)
EtisalatIn == AnyIn(EtisalatKeywords)
DuIn == AnyIn(DuKeywords)

\* any(k in c for k in ["united arab", "uae", "u.a.e"])
InRegion(s) == RegionIn[s.country]

\* any(k in sp or k in nm for k in ["e&", "etisalat", "emirates tele"])
MatchesEtisalat(s) == EtisalatIn[s.sponsor] \/ EtisalatIn[s.name]

\* any(k in sp or k in nm for k in ["du", "eitc"])
MatchesDu(s) == DuIn[s.sponsor] \/ DuIn[s.name]

\* int(str(s["id"])): ok is FALSE where s["id"] or int raises
ServerId(s) ==
    IF s.id.t = "nokey" THEN [ok |-> FALSE, v |-> 0] ELSE PyInt(PyStr(s.id))

\* a classification whose two tests are both made (if ... if)
BucketStepBoth(s, info, acc) ==
    [raised |-> FALSE,
     et |-> IF MatchesEtisalat(s) THEN Append(acc.et, info) ELSE acc.et,
     du |-> IF MatchesDu(s) THEN Append(acc.du, info) ELSE acc.du]

\* the if / elif of the loop body, for a server s of the region
BucketStep(s, info, acc) ==
    IF MatchesEtisalat(s)
    THEN [acc EXCEPT !.et = Append(acc.et, info)]
    ELSE IF MatchesDu(s)
    THEN [acc EXCEPT !.du = Append(acc.du, info)]
    ELSE acc

RECURSIVE ClassifyFrom(_, _, _)
\* the loop over the servers from the i-th on, with the buckets acc so far;
\* raised where s["id"] or int raises
ClassifyFrom(servers, i, acc) ==
    IF i > Len(servers) THEN acc
    ELSE LET s == servers[i]
             sid == ServerId(s)
         IN  IF ~InRegion(s) THEN ClassifyFrom(servers, i + 1, acc)
             ELSE IF ~sid.ok THEN [acc EXCEPT !.raised = TRUE]
             ELSE ClassifyFrom(servers, i + 1,
                      BucketStep(s, Endpoint(sid.v, s.sponsor, s.name, s.country), acc))

\* et, du = [], [] and the loop
Classify(servers) == ClassifyFrom(servers, 1, [raised |-> FALSE, et |-> <<>>, du |-> <<>>])

FallbackEtisalat == Endpoint(34239, "e& UAE", "Alain", "UAE")
FallbackDu == Endpoint(1692, "du", "Abu Dhabi", "UAE")

\* buckets without the fallback of du
WithFallbackEtisalatOnly(et, du) ==
    [etisalat |-> IF et = <<>> THEN <<FallbackEtisalat>> ELSE et, du |-> du]

\* buckets stored as the loop left them
WithFallbackNone(et, du) == [etisalat |-> et, du |-> du]

\* if not et: ... if not du: ... data = {...}
WithFallback(et, du) ==
    [etisalat |-> IF et = <<>> THEN <<FallbackEtisalat>> ELSE et,
     du |-> IF du = <<>> THEN <<FallbackDu>> ELSE du]

\* what the upstream directory does when asked: raise, or a list of servers
UpRaise == [raise |-> TRUE, servers |-> <<>>]
UpList(servers) == [raise |-> FALSE, servers |-> servers]

\* the try block of a discovery that saves the empty pool when it fails
QueryAndClassifySavingOnFailure(file, writable, up) ==
    LET c == Classify(up.servers)
    IN  IF up.raise \/ c.raised
        THEN [ret |-> EmptyPool, file |-> SaveCachedServers(file, writable, EmptyPool),
              queried |-> TRUE, raised |-> TRUE, saved |-> TRUE,
              et |-> c.et, du |-> c.du]
        ELSE LET data == WithFallback(c.et, c.du)
             IN  [ret |-> data, file |-> SaveCachedServers(file, writable, data),
                  queried |-> TRUE, raised |-> FALSE, saved |-> TRUE,
                  et |-> c.et, du |-> c.du]

\* the try block of discover_servers, with the upstream answering up
QueryAndClassify(file, writable, up) ==
    LET c == Classify(up.servers)
    IN  IF up.raise \/ c.raised
        THEN [ret |-> EmptyPool, file |-> file, queried |-> TRUE, raised |-> TRUE,
              saved |-> FALSE, et |-> c.et, du |-> c.du]
        ELSE LET data == WithFallback(c.et, c.du)
             IN  [ret |-> data, file |-> SaveCachedServers(file, writable, data),
                  queried |-> TRUE, raised |-> FALSE, saved |-> TRUE,
                  et |-> c.et, du |-> c.du]

\* a discovery that never looks at the cache
DiscoverIgnoringCache(file, writable, up) == QueryAndClassify(file, writable, up)

\* discover_servers(): what it returns, the cache file afterwards, whether
\* it asked the upstream directory, whether the try block raised, whether
\* it called save_cached_servers, and its locals et and du as the loop
\* left them
DiscoverServers(file, writable, up) ==
    LET cached == LoadCachedServers(file)
    IN  IF cached.present
        THEN [ret |-> cached.pool, file |-> file, queried |-> FALSE,
              raised |-> FALSE, saved |-> FALSE, et |-> <<>>, du |-> <<>>]
        ELSE QueryAndClassify(file, writable, up)

----------------------------------------------------------------------------
(* Inputs: cache files found at start and answers of the upstream directory *)

Range(f) == {f[i] : i \in DOMAIN f}

RECURSIVE ListsUpTo(_, _)
\* the lists of at most n different elements of S
ListsUpTo(S, n) ==
    IF n = 0 THEN {<<>>}
    ELSE LET shorter == ListsUpTo(S, n - 1)
         IN  shorter \cup
             UNION {{Append(l, x) : x \in S \ Range(l)} : l \in shorter}

RawEntrySamples ==
    {RawEntry(IntId(2001), "e& UAE", "Alain", "UAE"),
     RawEntry(IntId(1000), "du", "Abu Dhabi", "UAE"),
     RawEntry(IntId(999), "du", "Dubai", "UAE"),
     RawEntry(StrId(" 1692 "), "du", "Abu Dhabi", "UAE"),
     RawEntry(StrId("12a"), "Etisalat", "Alain", "UAE"),
     RawEntry(StrId("-2001"), "Etisalat", Null, "UAE"),
     RawEntry(NullId, Null, Null, Null),
     NotADict}

RichKeyValues ==
    {JAbsent, JScalar} \cup {JList(l) : l \in ListsUpTo(RawEntrySamples, MaxCached)}

FewKeyValues ==
    {JAbsent, JScalar, JList(<<>>),
     JList(<<RawEntry(IntId(2001), "e& UAE", "Alain", "UAE")>>),
     JList(<<RawEntry(IntId(999), "du", "Dubai", "UAE")>>),
     JList(<<RawEntry(StrId(" 1692 "), "du", "Abu Dhabi", "UAE"),
             RawEntry(StrId("12a"), "Etisalat", "Alain", "UAE")>>)}

\* the cache files load_cached_servers is tried on
CacheContents ==
    {FileMissing, FileMalformed}
    \cup {FileObject(e, d) : e \in RichKeyValues, d \in FewKeyValues}
    \cup {FileObject(e, d) : e \in FewKeyValues, d \in RichKeyValues}

UAELong == "United Arab Emirates"

Server(id, sponsor, name, country) ==
    [id |-> id, sponsor |-> sponsor, name |-> name, country |-> country]

\* the upstream list of the end-to-end scenario: sponsors e& UAE, du, du,
\* Etisalat, Random ISP with ids 2001..2005
ExampleUpstream ==
    <<Server(StrId("2001"), "e& UAE", "Alain", UAELong),
      Server(StrId("2002"), "du", "Abu Dhabi", UAELong),
      Server(StrId("2003"), "du", "Abu Dhabi", UAELong),
      Server(StrId("2004"), "Etisalat", "Alain", UAELong),
      Server(StrId("2005"), "Random ISP", "Alain", UAELong)>>

UpstreamSamples ==
    {Server(StrId("2001"), "e& UAE", "Alain", UAELong),
     Server(StrId("2002"), "du", "Abu Dhabi", UAELong),
     Server(StrId("2004"), "Etisalat", "Alain", UAELong),
     Server(IntId(2006), "Random ISP", "Dubai", "UAE"),
     Server(StrId("12a"), "Etisalat", "Muscat", "Oman"),
     Server(StrId("12a"), "du", "Abu Dhabi", "UAE"),
     Server(StrId("999"), "EITC", Null, "UAE"),
     Server(StrId("2008"), "e& UAE", "Dubai", "UAE"),
     Server(NoId, "Random ISP", "Alain", Null)}

\* the answers of the upstream directory a discovery is tried on
UpstreamOutcomes ==
    {UpRaise, UpList(ExampleUpstream)}
    \cup {UpList(l) : l \in ListsUpTo(UpstreamSamples, MaxUpstream)}

\* the cache files a discovery is tried on
DiscoverCaches ==
    {FileMissing, FileMalformed, JsonDump(EmptyPool),
     JsonDump([etisalat |-> <<FallbackEtisalat>>, du |-> <<FallbackDu>>]),
     JsonDump([etisalat |-> <<Endpoint(2001, "e& UAE", "Alain", UAELong)>>,
               du |-> <<>>]),
     FileObject(JList(<<RawEntry(StrId(" 1692 "), "du", "Abu Dhabi", "UAE"),
                        RawEntry(StrId("12a"), "Etisalat", "Alain", "UAE")>>),
                JList(<<RawEntry(IntId(999), "du", "Dubai", "UAE"),
                        RawEntry(IntId(1000), "du", "Abu Dhabi", "UAE")>>))}

----------------------------------------------------------------------------
(* load_cached_servers, save_cached_servers and discover_servers called on
   their own *)

NoDisc == [ret |-> EmptyPool, file |-> FileMissing, queried |-> FALSE,
           raised |-> FALSE, saved |-> FALSE, et |-> <<>>, du |-> <<>>]

\* op is the call, prev the call before it, before the cache file it found,
\* up what the upstream directory answers when it is asked
ObsNone == [op |-> "none", prev |-> "none", before |-> FileMissing,
            up |-> UpRaise, load |-> Absent, disc |-> NoDisc]

NoEndpoint == Endpoint(0, Null, Null, Null)

RunnerIdle ==
    /\ pc = "idle"
    /\ target = "etisalat"
    /\ retries = 0
    /\ cand = <<>>
    /\ ci = 0
    /\ a = 0
    /\ failure_count = 0
    /\ ret = 0
    /\ log = <<>>

RunnerUnchanged ==
    UNCHANGED <<lastGoodFile, lastGoodWritable, pc, target, retries, cand, ci, a,
                failure_count, ret, log, directory, lastOk, loopVars>>

\* first: whether the first discover_servers() since main_loop started asked
\* the upstream directory; late: sleeps of one second ended since _stop
\* was set during the sleep phase; cycles, runs: whether a cycle, a call of
\* run_speedtest_dynamic, began after _stop was set
SeenNone == [first |-> "none", late |-> 0, cycles |-> FALSE, runs |-> FALSE]

\* main_loop is not run
MainOff ==
    /\ stop = FALSE
    /\ mpc = "off"
    /\ isp_i = 0
    /\ ticks = 0
    /\ cyc = <<>>
    /\ seen = SeenNone

InitCache ==
    /\ cacheFile \in CacheContents
    /\ cacheWritable \in BOOLEAN
    /\ lastGoodFile = [p \in Providers |-> NoEndpoint]
    /\ lastGoodWritable = TRUE
    /\ RunnerIdle
    /\ obs = ObsNone
    /\ directory = {}
    /\ lastOk = [p \in Providers |-> NoEndpoint]
    /\ MainOff

InitDiscover ==
    /\ cacheFile \in DiscoverCaches
    /\ cacheWritable \in BOOLEAN
    /\ lastGoodFile = [p \in Providers |-> NoEndpoint]
    /\ lastGoodWritable = TRUE
    /\ RunnerIdle
    /\ obs \in {[ObsNone EXCEPT !.up = u] : u \in UpstreamOutcomes}
    /\ directory = {}
    /\ lastOk = [p \in Providers |-> NoEndpoint]
    /\ MainOff

\* a call of load_cached_servers()
LoadCall ==
    /\ obs' = [ObsNone EXCEPT !.op = "load", !.prev = obs.op, !.before = cacheFile,
                              !.up = obs.up,
                              !.load = LoadCachedServers(cacheFile)]
    /\ UNCHANGED <<cacheFile, cacheWritable>>
    /\ RunnerUnchanged

\* a call of save_cached_servers({"etisalat": [], "du": []})
InvalidateCall ==
    /\ cacheFile' = SaveCachedServers(cacheFile, cacheWritable, EmptyPool)
    /\ obs' = [ObsNone EXCEPT !.op = "invalidate", !.prev = obs.op,
                              !.before = cacheFile, !.up = obs.up]
    /\ UNCHANGED cacheWritable
    /\ RunnerUnchanged

\* a call of discover_servers(), with the upstream directory answering
\* obs.up if it is asked
DiscoverCall ==
    /\ cacheFile' = DiscoverServers(cacheFile, cacheWritable, obs.up).file
    /\ obs' = [ObsNone EXCEPT !.op = "discover", !.prev = obs.op,
                              !.before = cacheFile, !.up = obs.up,
                              !.disc = DiscoverServers(cacheFile, cacheWritable,
                                                       obs.up)]
    /\ UNCHANGED cacheWritable
    /\ RunnerUnchanged

NextCache == LoadCall \/ InvalidateCall

SpecCache == InitCache /\ [][NextCache]_vars

NextDiscover == DiscoverCall \/ InvalidateCall

SpecDiscover == InitDiscover /\ [][NextDiscover]_vars

----------------------------------------------------------------------------
(* load_last_good and save_last_good *)

\* load_last_good().get(isp): NoEndpoint is None
LoadLastGood(file, isp) == file[isp]

\* a save that stores the endpoint under the other provider
SaveLastGoodOtherKey(file, writable, isp, server_info) ==
    IF writable
    THEN [p \in Providers |-> IF p = isp THEN file[p] ELSE server_info]
    ELSE file

\* a save that starts from an empty record instead of the file's content
SaveLastGoodDroppingOthers(file, writable, isp, server_info) ==
    IF writable
    THEN [p \in Providers |-> IF p = isp THEN server_info ELSE NoEndpoint]
    ELSE file

\* save_last_good(isp, server_info): the file afterwards
SaveLastGood(file, writable, isp, server_info) ==
    IF writable THEN [file EXCEPT ![isp] = server_info] ELSE file

----------------------------------------------------------------------------
(* run_speedtest_dynamic *)

\* the cut of cand[:3]
MaxCandidates == 3

\* an entry of log: what was done, and the id of the server it was done to
Ev(ev, id) == [ev |-> ev, id |-> id]

Min(x, y) == IF x < y THEN x ELSE y

\* the orders random.shuffle can leave a list in
Shuffles(lst) ==
    LET n == Len(lst)
        bij == {f \in [1..n -> 1..n] : \A i, j \in 1..n : f[i] = f[j] => i = j}
    IN  {[i \in 1..n |-> lst[f[i]]] : f \in bij}

\* the last good server put first, the list kept as it is
EffectiveCandKeepingAll(last_good, lst) == <<last_good>> \o lst

\* the list without the last good server, and the last good server not put in
EffectiveCandWithoutLastGood(last_good, lst) ==
    LET Other(c) == c.id # last_good.id
    IN  SelectSeq(lst, Other)

\* [last_good] + [c for c in cand if c["id"] != last_good["id"]]
EffectiveCand(last_good, lst) ==
    LET Other(c) == c.id # last_good.id
    IN  <<last_good>> \o SelectSeq(lst, Other)

\* a trigger that needs more than 2 * retries failures
HealNeededStrict(failures, r) == failures > r * 2

\* failure_count >= retries * 2
HealNeeded(failures, r) == failures >= r * 2

RECURSIVE Pick(_, _, _)
\* the elements of lst at the indices I, from the i-th on
Pick(lst, I, i) ==
    IF i > Len(lst) THEN <<>>
    ELSE (IF i \in I THEN <<lst[i]>> ELSE <<>>) \o Pick(lst, I, i + 1)

\* the servers the upstream directory has for a run, in its order; the
\* fourth has the id of the first, and none is of du
RunServers ==
    <<Server(StrId("2001"), "e& UAE", "Alain", UAELong),
      Server(StrId("2004"), "Etisalat", "Alain", UAELong),
      Server(StrId("2008"), "e& UAE", "Dubai", "UAE"),
      Server(IntId(2001), "Etisalat", "Abu Dhabi", "UAE")>>

\* the answers of the upstream directory during a run
RunUpstreamOutcomes ==
    {UpRaise} \cup
    {UpList(Pick(RunServers, I, 1)) :
        I \in {J \in SUBSET (1..Len(RunServers)) : Cardinality(J) <= MaxRunUpstream}}

\* the answers the upstream directory can give when discover_servers is
\* called on this cache file: it answers only when it is asked
Answers(file) ==
    IF LoadCachedServers(file).present THEN {UpRaise} ELSE directory

Init ==
    /\ cacheFile \in {FileMissing,
                      JsonDump([etisalat |-> <<FallbackEtisalat>>,
                                du |-> <<FallbackDu>>])}
    /\ cacheWritable \in BOOLEAN
    /\ lastGoodFile \in {[p \in Providers |-> NoEndpoint],
                         [etisalat |-> FallbackEtisalat, du |-> NoEndpoint]}
    /\ lastGoodWritable \in BOOLEAN
    /\ RunnerIdle
    /\ obs = ObsNone
    /\ directory = RunUpstreamOutcomes
    /\ lastOk = [p \in Providers |-> NoEndpoint]
    /\ MainOff

\* run_speedtest_dynamic(t, r) is called, the upstream directory answering up
\* if it is asked: servers = discover_servers(); cand = servers.get(target, [])
CallWith(t, r, up) ==
    LET d == DiscoverServers(cacheFile, cacheWritable, up)
    IN  /\ pc = "idle"
        /\ target' = t
        /\ retries' = r
        /\ cacheFile' = d.file
        /\ cand' = d.ret[t]
        /\ log' = <<Ev("discover", 0)>>
        /\ pc' = IF d.ret[t] = <<>> THEN "no_cand" ELSE "select"
        /\ UNCHANGED <<cacheWritable, lastGoodFile, lastGoodWritable, ci, a,
                       failure_count, ret, obs, directory, lastOk>>

\* a call of run_speedtest_dynamic on its own
Call ==
    /\ mpc = "off"
    /\ \E t \in Providers, r \in 0..MaxRetries, up \in Answers(cacheFile) :
        CallWith(t, r, up)
    /\ UNCHANGED loopVars

\* if not cand: save the all-empty pool and discover again
Rediscover ==
    /\ pc = "no_cand"
    /\ LET cleared == SaveCachedServers(cacheFile, cacheWritable, EmptyPool)
       IN  \E up \in Answers(cleared) :
            LET d == DiscoverServers(cleared, cacheWritable, up)
            IN  /\ cacheFile' = d.file
                /\ cand' = d.ret[target]
    /\ log' = log \o <<Ev("invalidate", 0), Ev("discover", 0)>>
    /\ pc' = "select"
    /\ UNCHANGED <<cacheWritable, lastGoodFile, lastGoodWritable, target, retries,
                   ci, a, failure_count, ret, obs, directory, lastOk, loopVars>>

\* last_good first if there is one, random.shuffle(cand), failure_count = 0
Select ==
    /\ pc = "select"
    /\ LET last_good == LoadLastGood(lastGoodFile, target)
           ordered == IF last_good # NoEndpoint
                      THEN EffectiveCand(last_good, cand)
                      ELSE cand
       IN  /\ cand' \in Shuffles(ordered)
           /\ log' = log \o <<Ev("found", Len(cand)), Ev("last_good", last_good.id)>>
    /\ failure_count' = 0
    /\ ci' = 1
    /\ a' = 1
    /\ pc' = "loop"
    /\ UNCHANGED <<cacheFile, cacheWritable, lastGoodFile, lastGoodWritable, target,
                   retries, ret, obs, directory, lastOk, loopVars>>

\* loops that go through cand[:4]
InLoopFourCandidates ==
    pc = "loop" /\ ci <= Min(Len(cand), MaxCandidates + 1) /\ a <= retries

\* the loops have a candidate ch = cand[ci] and a try a to make
InLoop == pc = "loop" /\ ci <= Min(Len(cand), MaxCandidates) /\ a <= retries

\* a try that succeeds: save_last_good(target, ch); return res
AttemptOk ==
    /\ InLoop
    /\ lastGoodFile' = SaveLastGood(lastGoodFile, lastGoodWritable, target, cand[ci])
    /\ ret' = cand[ci].id
    /\ log' = Append(log, Ev("try_ok", cand[ci].id))
    /\ pc' = "done"
    /\ UNCHANGED <<cacheFile, cacheWritable, lastGoodWritable, target, retries, cand,
                   ci, a, failure_count, obs, directory, lastOk, loopVars>>

\* a try that raises: failure_count += 1, then the next try or candidate
AttemptFail ==
    /\ InLoop
    /\ failure_count' = failure_count + 1
    /\ log' = Append(log, Ev("try_fail", cand[ci].id))
    /\ IF a < retries
       THEN a' = a + 1 /\ ci' = ci
       ELSE a' = 1 /\ ci' = ci + 1
    /\ UNCHANGED <<cacheFile, cacheWritable, lastGoodFile, lastGoodWritable, pc,
                   target, retries, cand, ret, obs, directory, lastOk, loopVars>>

\* the loops end without a result
Exhausted ==
    /\ pc = "loop"
    /\ ~InLoop
    /\ log' = Append(log, Ev("exhausted", failure_count))
    /\ ret' = 0
    /\ pc' = IF HealNeeded(failure_count, retries) THEN "heal_invalidate" ELSE "done"
    /\ UNCHANGED <<cacheFile, cacheWritable, lastGoodFile, lastGoodWritable, target,
                   retries, cand, ci, a, failure_count, obs, directory, lastOk, loopVars>>

\* save_cached_servers({"etisalat": [], "du": []}) of the auto-healing
HealInvalidate ==
    /\ pc = "heal_invalidate"
    /\ cacheFile' = SaveCachedServers(cacheFile, cacheWritable, EmptyPool)
    /\ log' = Append(log, Ev("invalidate", 0))
    /\ pc' = "heal_discover"
    /\ UNCHANGED <<cacheWritable, lastGoodFile, lastGoodWritable, target, retries,
                   cand, ci, a, failure_count, ret, obs, directory, lastOk, loopVars>>

\* discover_servers() of the auto-healing, its result dropped
HealDiscover ==
    /\ pc = "heal_discover"
    /\ \E up \in Answers(cacheFile) :
        cacheFile' = DiscoverServers(cacheFile, cacheWritable, up).file
    /\ log' = Append(log, Ev("discover", 0))
    /\ pc' = "done"
    /\ UNCHANGED <<cacheWritable, lastGoodFile, lastGoodWritable, target, retries,
                   cand, ci, a, failure_count, ret, obs, directory, lastOk, loopVars>>

\* run_speedtest_dynamic returns: the caller has the result, the locals are
\* gone
Returned ==
    /\ pc = "done"
    /\ pc' = "idle"
    /\ target' = "etisalat"
    /\ retries' = 0
    /\ cand' = <<>>
    /\ ci' = 0
    /\ a' = 0
    /\ failure_count' = 0
    /\ ret' = 0
    /\ log' = <<>>
    /\ UNCHANGED <<cacheFile, cacheWritable, lastGoodFile, lastGoodWritable, obs,
                   directory>>

\* the return of a call of run_speedtest_dynamic made on its own
Return ==
    /\ mpc = "off"
    /\ Returned
    /\ UNCHANGED <<lastOk, loopVars>>

Next ==
    \/ Call
    \/ Rediscover
    \/ Select
    \/ AttemptOk
    \/ AttemptFail
    \/ Exhausted
    \/ HealInvalidate
    \/ HealDiscover
    \/ Return

Spec == Init /\ [][Next]_vars

----------------------------------------------------------------------------
(* main_loop *)

\* longest range(sleep_time) of a sleep phase
MaxSleep == 2

\* the default of the argument retries
DefaultRetries == 2

\* for isp in ["etisalat", "du"]
Isps == <<"etisalat", "du">>

\* the answers of the upstream directory while main_loop runs
MainDirectory == {UpRaise, UpList(<<RunServers[1], RunServers[2]>>)}

\* a loop that goes on whatever _stop is
LoopContinuesAlways(s) == TRUE

\* while not _stop
LoopContinues(s) == ~s

\* a sleep phase that never looks at _stop
SleepNeverBreaks(s) == FALSE

\* if _stop: break
SleepBreaks(s) == s

\* an exception that is not caught
AfterRaiseExits == "exited"

\* where main_loop is after except and the first lines of finally
AfterRaise == "sleep"

\* the first event of a cycle: id 1 when the cycle before it ended with an
\* exception
Begin(raised) == Ev("begin", IF raised THEN 1 ELSE 0)

\* the current cycle has ended its try block with an exception
CycleRaised == cyc # <<>> /\ cyc[Len(cyc)].ev = "raise"

InitMain ==
    /\ cacheFile \in {FileMissing,
                      JsonDump([etisalat |-> <<FallbackEtisalat>>,
                                du |-> <<FallbackDu>>])}
    /\ cacheWritable \in BOOLEAN
    /\ lastGoodFile \in {[p \in Providers |-> NoEndpoint],
                         [etisalat |-> FallbackEtisalat, du |-> NoEndpoint]}
    /\ lastGoodWritable \in BOOLEAN
    /\ RunnerIdle
    /\ obs = ObsNone
    /\ directory = MainDirectory
    /\ lastOk = lastGoodFile
    /\ stop = FALSE
    /\ mpc = "start"
    /\ isp_i = 0
    /\ ticks = 0
    /\ cyc = <<>>
    /\ seen = SeenNone

\* the environment and the runner as main_loop's own steps leave them
MainOnly ==
    UNCHANGED <<cacheWritable, lastGoodFile, lastGoodWritable, pc, target, retries,
                cand, ci, a, failure_count, ret, log, obs, directory, lastOk>>

\* the signal handler _graceful_exit runs
SetStop ==
    /\ mpc \notin {"off", "exited"}
    /\ ~stop
    /\ stop' = TRUE
    /\ UNCHANGED <<cacheFile, mpc, isp_i, ticks, cyc, seen>>
    /\ MainOnly

\* save_cached_servers({"etisalat": [], "du": []}) before the loop
MainStart ==
    /\ mpc = "start"
    /\ cacheFile' = SaveCachedServers(cacheFile, cacheWritable, EmptyPool)
    /\ mpc' = "while"
    /\ UNCHANGED <<stop, isp_i, ticks, cyc, seen>>
    /\ MainOnly

\* while not _stop: the next cycle begins or main_loop returns
WhileTest ==
    /\ mpc = "while"
    /\ IF LoopContinues(stop)
       THEN /\ mpc' = "ambient"
            /\ cyc' = <<Begin(CycleRaised)>>
            /\ seen' = [seen EXCEPT !.cycles = @ \/ stop]
       ELSE /\ mpc' = "exited"
            /\ UNCHANGED <<cyc, seen>>
    /\ UNCHANGED <<cacheFile, stop, isp_i, ticks>>
    /\ MainOnly

\* sleep_time = INTERVAL_SECONDS + random.randint(-30, 30), and the sleep
\* phase begins
ToSleep ==
    /\ mpc' = "sleep"
    /\ isp_i' = 0
    /\ ticks' \in 0..MaxSleep

\* except Exception: the exception is printed, and finally begins the sleep
\* phase
Raised ==
    /\ mpc' = AfterRaise
    /\ isp_i' = 0
    /\ ticks' \in 0..MaxSleep

\* the lines from day_paths() to measure_http_load() complete
Ambient ==
    /\ mpc = "ambient"
    /\ mpc' = "measure"
    /\ isp_i' = 1
    /\ cyc' = Append(cyc, Ev("ambient", 0))
    /\ UNCHANGED <<cacheFile, stop, ticks, seen>>
    /\ MainOnly

\* one of them raises
AmbientRaises ==
    /\ mpc = "ambient"
    /\ Raised
    /\ cyc' = Append(cyc, Ev("raise", 0))
    /\ UNCHANGED <<cacheFile, stop, seen>>
    /\ MainOnly

\* s = run_speedtest_dynamic(isp) is called
StartMeasure ==
    /\ mpc = "measure"
    /\ \E up \in Answers(cacheFile) :
        /\ CallWith(Isps[isp_i], DefaultRetries, up)
        /\ seen' = [seen EXCEPT
                      !.first = IF @ # "none" THEN @
                                ELSE IF DiscoverServers(cacheFile, cacheWritable,
                                                        up).queried
                                THEN "queried" ELSE "cached",
                      !.runs = @ \/ stop]
    /\ mpc' = "running"
    /\ cyc' = Append(cyc, Ev("call", isp_i))
    /\ UNCHANGED <<stop, isp_i, ticks>>

\* run_speedtest_dynamic(isp) raises at import speedtest
MeasureRaises ==
    /\ mpc = "measure"
    /\ Raised
    /\ cyc' = cyc \o <<Ev("call", isp_i), Ev("raise", isp_i)>>
    /\ UNCHANGED <<cacheFile, stop, seen>>
    /\ MainOnly

\* a for loop that ends after its first isp
NextIspEnds == ToSleep

\* the for loop goes to the next isp, or the try block ends
NextIsp ==
    IF isp_i < Len(Isps)
    THEN mpc' = "measure" /\ isp_i' = isp_i + 1 /\ ticks' = ticks
    ELSE ToSleep

\* s is None: the failure is written with append_txt, continue
MeasureNone ==
    /\ mpc = "running"
    /\ ret = 0
    /\ Returned
    /\ NextIsp
    /\ cyc' = cyc \o <<Ev("none", isp_i), Ev("notice", isp_i)>>
    /\ UNCHANGED <<stop, seen, lastOk>>

\* s is None and append_txt raises
MeasureNoneRaises ==
    /\ mpc = "running"
    /\ ret = 0
    /\ Returned
    /\ Raised
    /\ cyc' = cyc \o <<Ev("none", isp_i), Ev("raise", isp_i)>>
    /\ UNCHANGED <<stop, seen, lastOk>>

\* s is a result: append_csv, supabase_push, append_txt, time.sleep(5)
MeasureResult ==
    /\ mpc = "running"
    /\ ret # 0
    /\ lastOk' = [lastOk EXCEPT ![target] = cand[ci]]
    /\ Returned
    /\ NextIsp
    /\ cyc' = cyc \o <<Ev("result", isp_i), Ev("row", isp_i)>>
    /\ UNCHANGED <<stop, seen>>

\* s is a result and append_csv or append_txt raises
MeasureResultRaises ==
    /\ mpc = "running"
    /\ ret # 0
    /\ lastOk' = [lastOk EXCEPT ![target] = cand[ci]]
    /\ Returned
    /\ Raised
    /\ cyc' = cyc \o <<Ev("result", isp_i), Ev("raise", isp_i)>>
    /\ UNCHANGED <<stop, seen>>

\* for _ in range(sleep_time): if _stop: break; and time.sleep(1) begins
SleepTest ==
    /\ mpc = "sleep"
    /\ IF SleepBreaks(stop) \/ ticks = 0
       THEN mpc' = "while" /\ ticks' = 0
       ELSE mpc' = "tick" /\ ticks' = ticks - 1
    /\ UNCHANGED <<cacheFile, stop, isp_i, cyc, seen>>
    /\ MainOnly

\* time.sleep(1) ends
Tick ==
    /\ mpc = "tick"
    /\ mpc' = "sleep"
    /\ seen' = [seen EXCEPT !.late = IF stop THEN @ + 1 ELSE @]
    /\ UNCHANGED <<cacheFile, stop, isp_i, ticks, cyc>>
    /\ MainOnly

\* a step of main_loop or of the run_speedtest_dynamic it called
MainStep ==
    \/ MainStart
    \/ WhileTest
    \/ Ambient
    \/ AmbientRaises
    \/ MeasureRaises
    \/ StartMeasure
    \/ Rediscover
    \/ Select
    \/ AttemptOk
    \/ AttemptFail
    \/ Exhausted
    \/ HealInvalidate
    \/ HealDiscover
    \/ MeasureNone
    \/ MeasureNoneRaises
    \/ MeasureResult
    \/ MeasureResultRaises
    \/ SleepTest
    \/ Tick

NextMain == MainStep \/ SetStop

SpecMain == InitMain /\ [][NextMain]_vars

\* every step of main_loop that can be taken is taken: calls return, tries
\* complete or raise, sleeps end
FairMain == SpecMain /\ WF_vars(MainStep)

----------------------------------------------------------------------------
(* Claims about load_cached_servers and save_cached_servers (SpecCache) *)

\* an entry whose id int() accepts and that is at least 1000
KeepsEntry(e) ==
    e.isdict /\ PyInt(PyStr(e.id)).ok /\ PyInt(PyStr(e.id)).v >= MinServerId

\* the ids of a list of endpoints
Ids(lst) == [i \in 1..Len(lst) |-> lst[i].id]

\* the ids of the entries of a list of the file that are to be kept
KeptIds(v) ==
    LET kept == SelectSeq(v, KeepsEntry)
    IN  [i \in 1..Len(kept) |-> PyInt(PyStr(kept[i].id)).v]

\* C5: load_cached_servers() drops each entry whose id is not numeric or is
\* below 1000; it returns None when the file is missing or malformed or a
\* provider has no entry left, and otherwise a pool of the entries kept, in
\* order, both providers non-empty and every id an integer >= 1000.
C5_LoadFiltersAndRejects ==
    obs.op = "load" =>
        LET f == obs.before
            r == obs.load
            unreadable == \/ f.kind # "object"
                          \/ f.etisalat.t = "scalar"
                          \/ f.du.t = "scalar"
        IN  IF unreadable \/ KeptIds(f.etisalat.v) = <<>> \/ KeptIds(f.du.v) = <<>>
            THEN ~r.present
            ELSE /\ r.present
                 /\ Ids(r.pool.etisalat) = KeptIds(f.etisalat.v)
                 /\ Ids(r.pool.du) = KeptIds(f.du.v)
                 /\ r.pool.etisalat # <<>> /\ r.pool.du # <<>>
                 /\ \A p \in Providers : \A i \in 1..Len(r.pool[p]) :
                        r.pool[p][i].id \in Int /\ r.pool[p][i].id >= 1000

\* a load that returned a pool after dropping an entry of etisalat
C5_Witness ==
    /\ obs.op = "load"
    /\ obs.load.present
    /\ Len(obs.load.pool.etisalat) < Len(obs.before.etisalat.v)

\* C6: writing the all-empty pool a second time leaves the cache file as the
\* first write left it, and load_cached_servers() gives the same result,
\* which is None whenever the file could be written.
C6_InvalidateIdempotent ==
    (obs.op = "invalidate" /\ obs.prev = "invalidate") =>
        /\ cacheFile = obs.before
        /\ LoadCachedServers(cacheFile) = LoadCachedServers(obs.before)
        /\ cacheWritable => ~LoadCachedServers(cacheFile).present

\* the all-empty pool written twice in a row to a writable file
C6_Witness ==
    /\ obs.op = "invalidate"
    /\ obs.prev = "invalidate"
    /\ cacheWritable
    /\ cacheFile = JsonDump(EmptyPool)

----------------------------------------------------------------------------
(* Claims about discover_servers (SpecDiscover) *)

\* a discovery that asked the upstream directory and got a list
QueryAnswered == obs.op = "discover" /\ obs.disc.queried /\ ~obs.up.raise

\* an upstream server the loop puts in the etisalat bucket, and in the du one
ToEtisalat(s) == InRegion(s) /\ MatchesEtisalat(s)
ToDu(s) == InRegion(s) /\ ~MatchesEtisalat(s) /\ MatchesDu(s)

\* what C7 says of the pool returned
FallbackFills ==
    LET r == obs.disc.ret
        servers == obs.up.servers
    IN  /\ r.etisalat # <<>>
        /\ r.du # <<>>
        /\ (\A i \in 1..Len(servers) : ~ToEtisalat(servers[i]))
               => r.etisalat = <<FallbackEtisalat>>
        /\ (\A i \in 1..Len(servers) : ~ToDu(servers[i]))
               => r.du = <<FallbackDu>>
        /\ FallbackEtisalat.id = 34239
        /\ FallbackDu.id = 1692

C8_Classification ==
    (QueryAnswered /\ ~obs.disc.raised) =>
        LET servers == obs.up.servers
            toEt == SelectSeq(servers, ToEtisalat)
            toDu == SelectSeq(servers, ToDu)
        IN  /\ Ids(obs.disc.et) = [i \in 1..Len(toEt) |-> ServerId(toEt[i]).v]
            /\ Ids(obs.disc.du) = [i \in 1..Len(toDu) |-> ServerId(toDu[i]).v]
            /\ Len(obs.disc.et) + Len(obs.disc.du) <= Len(servers)
            /\ servers = ExampleUpstream =>
                   /\ Ids(obs.disc.et) = <<2001, 2004>>
                   /\ Ids(obs.disc.du) = <<2002, 2003>>

\* the example list classified
C8_Witness ==
    /\ QueryAnswered
    /\ ~obs.disc.raised
    /\ obs.up.servers = ExampleUpstream
    /\ Len(obs.disc.et) = 2

\* C9: when load_cached_servers() returns a pool, discover_servers() returns
\* that pool, does not ask the upstream directory and does not write the
\* cache.
C9_CacheHit ==
    (obs.op = "discover" /\ LoadCachedServers(obs.before).present) =>
        /\ obs.disc.ret = LoadCachedServers(obs.before).pool
        /\ ~obs.disc.queried
        /\ ~obs.disc.saved
        /\ cacheFile = obs.before

\* a discovery that found a pool in the cache
C9_Witness ==
    /\ obs.op = "discover"
    /\ LoadCachedServers(obs.before).present
    /\ obs.disc.ret.etisalat # <<>>

\* C10: when the upstream query or the classification raises,
\* discover_servers() returns the pool with both providers empty and the
\* cache file is as it was: nothing is saved.
C10_FailureReturnsEmpty ==
    (obs.op = "discover" /\ obs.disc.raised) =>
        /\ obs.disc.ret = EmptyPool
        /\ ~obs.disc.saved
        /\ cacheFile = obs.before

\* a discovery whose classification raised on a writable cache
C10_Witness ==
    /\ obs.op = "discover"
    /\ obs.disc.raised
    /\ ~obs.up.raise
    /\ cacheWritable

----------------------------------------------------------------------------
(* Claims about run_speedtest_dynamic (Spec) *)

\* the invocation is past random.shuffle(cand)
Shuffled == \E i \in 1..Len(log) : log[i].ev = "last_good"

\* the id of the last good server the invocation loaded, 0 when it found none
PreferredId ==
    LET I == {i \in 1..Len(log) : log[i].ev = "last_good"}
    IN  IF I = {} THEN 0 ELSE log[CHOOSE i \in I : TRUE].id

\* how many servers servers.get(target) held when the last good one was loaded
FoundCount ==
    LET I == {i \in 1..Len(log) : log[i].ev = "found"}
    IN  IF I = {} THEN 0 ELSE log[CHOOSE i \in I : TRUE].id

IsTry(e) == e.ev \in {"try_ok", "try_fail"}

\* the tries of the invocation so far, in order
Tries == SelectSeq(log, IsTry)

\* the tries of the invocation on the server with this id that raised
FailedOn(id) == {i \in 1..Len(log) : log[i] = Ev("try_fail", id)}

\* the positions of cand that hold this id
PositionsOf(id) == {i \in 1..Len(cand) : cand[i].id = id}

\* C1 as claimed: whenever a last good server exists for the provider, it is
\* at position 0 of the order the loop goes through, whatever the shuffle
\* did and however many servers there are, and the first try of the
\* invocation is made on it.
C1_Original ==
    (Shuffled /\ PreferredId # 0) =>
        /\ cand[1].id = PreferredId
        /\ Tries # <<>> => Tries[1].id = PreferredId

\* C2: whenever a last good server exists for the provider, and so whenever
\* its id is also among the servers discovered, the shuffled cand holds
\* exactly one entry with that id.
C2_PreferredOnce ==
    (Shuffled /\ PreferredId # 0) => Cardinality(PositionsOf(PreferredId)) = 1

\* a last good server whose id two of the discovered servers had, shuffled
\* away from the front
C2_Witness ==
    /\ Shuffled
    /\ PreferredId # 0
    /\ Len(cand) < FoundCount
    /\ cand[1].id # PreferredId

\* the invocation is over, cand had three servers of three ids, retries >= 1,
\* every try on the server at position s succeeded and every try on the
\* other two raised
FailoverOn(s) ==
    /\ pc = "done"
    /\ retries >= 1
    /\ Len(cand) = 3
    /\ \A i, j \in 1..3 : cand[i].id = cand[j].id => i = j
    /\ s \in 1..3
    /\ FailedOn(cand[s].id) = {}
    /\ \A i \in 1..Len(log) : log[i].ev = "try_ok" => log[i].id = cand[s].id

\* the result is of the server at position s, after exactly retries failed
\* tries on each server before it and none on a server after it
ReturnsAfterFailures(s) ==
    /\ ret = cand[s].id
    /\ \A j \in 1..3 :
        Cardinality(FailedOn(cand[j].id)) = IF j < s THEN retries ELSE 0

\* C3 as claimed: with three candidates of which two raise on every try and
\* one succeeds, and retries >= 1, the result carries the id of the one that
\* succeeds, exactly retries tries failed on each server tried before it,
\* and on return the last good record of the provider is that server.
C3_Original ==
    \A s \in 1..3 : FailoverOn(s) =>
        /\ ReturnsAfterFailures(s)
        /\ LoadLastGood(lastGoodFile, target) = cand[s]

\* C3 amended: the same of the result and of the failed tries; the last
\* good record of the provider is that server when its file could be written.
C3_Failover ==
    \A s \in 1..3 : FailoverOn(s) =>
        /\ ReturnsAfterFailures(s)
        /\ lastGoodWritable => LoadLastGood(lastGoodFile, target) = cand[s]

\* two servers failed retries times each, the third succeeded and was saved
C3_Witness ==
    /\ FailoverOn(3)
    /\ retries = MaxRetries
    /\ failure_count = 2 * retries
    /\ lastGoodWritable
    /\ LoadLastGood(lastGoodFile, target) = cand[3]

\* what the invocation did after its loops ended without a result
AfterExhausted ==
    LET k == CHOOSE i \in 1..Len(log) : log[i].ev = "exhausted"
    IN  SubSeq(log, k + 1, Len(log))

\* the invocation is about to return None
ReturnsNone == pc = "done" /\ \E i \in 1..Len(log) : log[i].ev = "exhausted"

\* the all-empty pool is saved and discover_servers() called once more when
\* failure_count >= 2 * retries, and neither happens otherwise
HealsOnce ==
    ReturnsNone =>
        /\ ret = 0
        /\ AfterExhausted = IF failure_count >= 2 * retries
                            THEN <<Ev("invalidate", 0), Ev("discover", 0)>>
                            ELSE <<>>

FirstDiscovered == pc # "idle" /\ Len(log) = 1

\* the invocation saved the all-empty pool and called discover_servers() again
Rediscovered == Len(log) >= 3 /\ log[2].ev = "invalidate"

\* the second discovery left servers.get(target) empty as well
StillEmpty == Rediscovered /\ Shuffled /\ FoundCount = 0

\* an empty servers.get(target) is followed by one save of the all-empty
\* pool and one more discover_servers(), a non-empty one by neither
RediscoversOnce ==
    /\ FirstDiscovered => (cand = <<>> <=> pc = "no_cand")
    /\ Len(log) >= 2 =>
           IF log[2].ev = "invalidate"
           THEN /\ pc # "no_cand"
                /\ log[3].ev = "discover"
                /\ {i \in 1..Len(log) : log[i].ev = "found"} \subseteq {4}
           ELSE log[2].ev = "found"

\* C15 as claimed: an empty candidate list makes the invocation save the
\* all-empty pool and discover exactly once more; if the list is still empty
\* no try is made and None is returned, whether or not there is a last good
\* server for the provider.
C15_Original ==
    /\ RediscoversOnce
    /\ StillEmpty =>
           /\ Tries = <<>>
           /\ pc = "done" => ret = 0

\* C15 amended: the same of the rediscovery; if the list is still empty and
\* there is no last good server, no try is made and None is returned; if
\* there is one, it is the only candidate and every try is made on it.
C15_NoCandidates ==
    /\ RediscoversOnce
    /\ (StillEmpty /\ PreferredId = 0) =>
           /\ cand = <<>>
           /\ Tries = <<>>
           /\ pc = "done" => ret = 0
    /\ (StillEmpty /\ PreferredId # 0) =>
           /\ Len(cand) = 1
           /\ cand[1].id = PreferredId
           /\ \A k \in 1..Len(Tries) : Tries[k].id = PreferredId

\* two empty discoveries, no last good server, None returned without a try
C15_Witness ==
    /\ StillEmpty
    /\ PreferredId = 0
    /\ pc = "done"
    /\ ret = 0
    /\ Tries = <<>>

\* the k-th try of an invocation is made on the candidate at position
\* ceil(k / retries) of cand[:3], only the last try can have succeeded, and
\* failure_count counts the tries that raised
BoundedAttempts ==
    Shuffled =>
        /\ Len(Tries) <= MaxCandidates * retries
        /\ \A k \in 1..Len(Tries) :
            LET c == ((k - 1) \div retries) + 1
            IN  /\ c <= Min(Len(cand), MaxCandidates)
                /\ Tries[k].id = cand[c].id
                /\ Tries[k].ev = "try_ok" => k = Len(Tries)
        /\ failure_count = Cardinality({i \in 1..Len(log) : log[i].ev = "try_fail"})
        /\ (pc = "loop" /\ Tries # <<>>) => Tries[Len(Tries)].ev = "try_fail"

\* a step that stays in the loops is one more try
OneMoreTry == (pc = "loop" /\ pc' = "loop") => Len(Tries') = Len(Tries) + 1

\* in the loops a try can complete or raise, or the loops can end
CanGoOn == pc = "loop" => ENABLED (AttemptOk \/ AttemptFail \/ Exhausted)

\* C16: an invocation tries at most 3 candidates, each at most retries
\* times, goes to the next candidate only after retries failures in a row on
\* the current one and makes no try after one that succeeded; every step
\* that stays in its loops is one more try and a step is always possible,
\* so that it leaves its loops after at most 3 * retries tries that
\* complete or raise.
C16_BoundedAttempts ==
    /\ []BoundedAttempts
    /\ []CanGoOn
    /\ [][OneMoreTry]_vars

\* three candidates tried retries times each, all of the tries failed
C16_Witness ==
    /\ pc = "done"
    /\ retries = MaxRetries
    /\ Len(Tries) = MaxCandidates * retries
    /\ failure_count = MaxCandidates * retries
    /\ Len(cand) > MaxCandidates

----------------------------------------------------------------------------
(* Further claims about discover_servers (SpecDiscover) *)

\* C18 as claimed: every endpoint of a pool that discover_servers() returns,
\* from the cache or from the upstream directory, has an integer id >= 1000,
\* whatever the upstream servers are.
C18_Original ==
    obs.op = "discover" =>
        \A p \in Providers : \A i \in 1..Len(obs.disc.ret[p]) :
            /\ obs.disc.ret[p][i].id \in Int
            /\ obs.disc.ret[p][i].id >= MinServerId

\* C19 as claimed: after a discover_servers() whose upstream query completed
\* and whose write of the cache succeeded, load_cached_servers() returns the
\* pool that discover_servers() returned, and the next discover_servers()
\* does not ask the upstream directory, whatever the upstream servers are.
C19_Original ==
    (QueryAnswered /\ obs.disc.saved /\ cacheWritable) =>
        /\ LoadCachedServers(cacheFile).present
        /\ LoadCachedServers(cacheFile).pool = obs.disc.ret
        /\ ~DiscoverServers(cacheFile, cacheWritable, obs.up).queried

----------------------------------------------------------------------------
(* Claims about main_loop (SpecMain, FairMain) *)

\* C11 as claimed: whatever the cache file holds when main_loop starts, and
\* also when the write of the all-empty pool at start fails, the first
\* discover_servers() of the process asks the upstream directory and does
\* not return the pool of the old cache file.
C11_Original == seen.first \in {"none", "queried"}

\* a cycle that has raised is in its sleep phase or past it
RaisedThenSleeps == CycleRaised => mpc \in {"sleep", "tick", "while", "exited"}

\* main_loop has returned only if _stop is set
ExitsOnlyOnStop == mpc = "exited" => stop

\* the step in which a cycle raises begins its sleep phase
RaiseBeginsSleep == (~CycleRaised /\ CycleRaised') => mpc' = "sleep"

\* the step that leaves the test of the while loop with _stop not set begins
\* a cycle
NextCycleBegins ==
    (mpc = "while" /\ ~stop /\ stop' = stop /\ mpc' # mpc) => mpc' = "ambient"

\* C12: an exception raised by a step of a cycle is caught, the sleep phase
\* of the cycle is executed, and after it the next cycle begins unless
\* _stop is set; main_loop returns only when _stop is set.
C12_BadCycleSurvival ==
    /\ []RaisedThenSleeps
    /\ []ExitsOnlyOnStop
    /\ [][RaiseBeginsSleep /\ NextCycleBegins]_vars
    /\ (CycleRaised /\ mpc = "sleep") ~> (stop \/ mpc = "ambient")

\* a cycle that began after the cycle before it raised, and called the runner
C12_Witness ==
    /\ cyc # <<>>
    /\ cyc[1] = Begin(TRUE)
    /\ mpc = "running"
    /\ ~stop

\* at most one sleep of one second has ended since _stop was set
OneLateTick == seen.late <= 1

\* no cycle has begun since _stop was set
NoCycleAfterStop == ~seen.cycles

\* no call of run_speedtest_dynamic has been made since _stop was set
NoRunAfterStop == ~seen.runs

\* C13 as claimed: main_loop returns only after _stop is set; once it is set
\* at most one more sleep of one second ends before the sleep loop is left,
\* no cycle and no measurement is begun; and, every step completing, _stop
\* set leads to the return of main_loop.
C13_Original ==
    /\ []ExitsOnlyOnStop
    /\ []OneLateTick
    /\ []NoCycleAfterStop
    /\ []NoRunAfterStop
    /\ stop ~> (mpc = "exited")

\* C13 amended: the same, but for the measurements: no cycle is begun after
\* _stop is set, while the calls of run_speedtest_dynamic of the cycle in
\* progress are still made.
C13_CooperativeShutdown ==
    /\ []ExitsOnlyOnStop
    /\ []OneLateTick
    /\ []NoCycleAfterStop
    /\ stop ~> (mpc = "exited")

\* _stop set during a sleep of one second: that sleep ended, main_loop returned
C13_Witness ==
    /\ mpc = "exited"
    /\ seen.late = 1
    /\ ~seen.runs

\* the calls of run_speedtest_dynamic of the current cycle, in their order
Calls == SelectSeq(cyc, LAMBDA e : e.ev = "call")

\* the places in Isps of the providers they were made for
CallIds == [k \in 1..Len(Calls) |-> Calls[k].id]

\* the current cycle has done ev for the provider at place id of Isps
Has(ev, id) == \E k \in 1..Len(cyc) : cyc[k] = Ev(ev, id)

\* the current cycle reached its for loop and has left its try block
CycleOver ==
    /\ mpc \in {"sleep", "tick", "while", "exited"}
    /\ Has("ambient", 0)

\* the calls are for etisalat, then for du, at most one each
InOrder == CallIds \in {<<>>, <<1>>, <<1, 2>>}

\* a call has returned before anything else happens in main_loop, and the
\* runner works only for the last call
NotOverlapping ==
    /\ \A k \in 1..(Len(cyc) - 1) :
          cyc[k].ev = "call"
              => cyc[k + 1].id = cyc[k].id
                 /\ cyc[k + 1].ev \in {"none", "result", "raise"}
    /\ pc # "idle" =>
          /\ mpc = "running"
          /\ cyc[Len(cyc)] = Ev("call", isp_i)
          /\ target = Isps[isp_i]

\* C14 as claimed: in every cycle that reaches the for loop,
\* run_speedtest_dynamic is called once for etisalat and then once for du,
\* never two at a time; a None for etisalat is written as a failure notice,
\* nothing is raised, and du is measured in the same cycle.
C14_Original ==
    /\ InOrder
    /\ NotOverlapping
    /\ CycleOver => CallIds = <<1, 2>>
    /\ (CycleOver /\ Has("none", 1)) =>
          /\ Has("notice", 1)
          /\ ~Has("raise", 1)
          /\ Has("call", 2)

\* C14 amended: the calls are for etisalat and then for du, at most once each
\* and never two at a time; both are made in every cycle whose try block
\* raises nothing; du is called exactly when the step for etisalat ended
\* with its failure notice or its record written.
C14_Sequencing ==
    /\ InOrder
    /\ NotOverlapping
    /\ (CycleOver /\ ~CycleRaised) => CallIds = <<1, 2>>
    /\ CycleOver => (Has("call", 2) <=> (Has("notice", 1) \/ Has("row", 1)))
    /\ (CycleOver /\ Has("none", 1) /\ ~Has("raise", 1)) =>
          /\ Has("notice", 1)
          /\ Has("call", 2)

\* a cycle with None for etisalat, its notice, and then a result for du
C14_Witness ==
    /\ CycleOver
    /\ ~CycleRaised
    /\ Has("none", 1)
    /\ Has("notice", 1)
    /\ Has("result", 2)
    /\ CallIds = <<1, 2>>

\* the endpoint of the most recent successful measurement of provider p,
\* the one of a previous process included: lastOk, or the endpoint of the
\* call that has just succeeded and not returned to main_loop yet
Latest(p) ==
    IF pc = "done" /\ ret # 0 /\ target = p THEN cand[ci] ELSE lastOk[p]

\* the record of every provider is its most recent success, absent if none
TracksLastOk == \A p \in Providers : lastGoodFile[p] = Latest(p)

\* the record of a provider changes only in the step in which a try for
\* that provider succeeds, and becomes the endpoint tried
OnlySuccessWrites ==
    \A p \in Providers :
        lastGoodFile'[p] # lastGoodFile[p] =>
            /\ InLoop
            /\ pc' = "done"
            /\ ret' # 0
            /\ target = p
            /\ lastGoodFile'[p] = cand[ci]

\* a record that cannot be written never changes
UnwritableKept == ~lastGoodWritable => lastGoodFile' = lastGoodFile

\* C17 as claimed: the record of a provider in LAST_GOOD_FILE is absent or
\* the endpoint of the provider's most recent successful measurement, and
\* it changes in no step but a successful try for that provider.
C17_Original ==
    /\ []TracksLastOk
    /\ [][OnlySuccessWrites]_vars

\* C17 amended: the record changes in no step but a successful try for that
\* provider; it is the endpoint of the most recent success whenever
\* LAST_GOOD_FILE can be written, and otherwise stays what it was.
C17_TracksLastSuccess ==
    /\ [](lastGoodWritable => TracksLastOk)
    /\ [][OnlySuccessWrites /\ UnwritableKept]_vars

\* etisalat succeeded and its record was written; du then failed on every
\* candidate, which invalidated the cache and rediscovered: the record of
\* etisalat is still there and du has none
C17_Witness ==
    /\ lastGoodWritable
    /\ Has("result", 1)
    /\ Has("none", 2)
    /\ lastGoodFile["etisalat"] # NoEndpoint
    /\ lastGoodFile["etisalat"] = lastOk["etisalat"]
    /\ lastGoodFile["du"] = NoEndpoint

\* a cache file whose two lists are both empty or both non-empty
BothOrNone(file) ==
    /\ file.kind = "object"
    /\ file.etisalat.t = "list"
    /\ file.du.t = "list"
    /\ (file.etisalat.v = <<>>) <=> (file.du.v = <<>>)

\* every step that changes the cache file leaves such a file
WritesBothOrNone == cacheFile' # cacheFile => BothOrNone(cacheFile')

\* after the reset at the start of main_loop, a cache file that can be
\* written is such a file
ResetThenBothOrNone == (mpc # "start" /\ cacheWritable) => BothOrNone(cacheFile)

\* C20: from the reset at the start of main_loop on, what this program has
\* written to CACHE_FILE is the all-empty pool or a pool with both
\* providers non-empty: no step stores a pool with exactly one provider
\* empty.
C20_CacheContent ==
    /\ []ResetThenBothOrNone
    /\ [][WritesBothOrNone]_vars

\* a discovery asked the upstream directory, got etisalat servers only, and
\* stored them with the fallback of du
C20_Witness ==
    /\ seen.first = "queried"
    /\ cacheWritable
    /\ Len(cacheFile.etisalat.v) = 2
    /\ Len(cacheFile.du.v) = 1

====
